---- MODULE Spec2Model ----
(***************************************************************************)
(* Model of estimate_graph_psd (demo_spherical_convolution.ipynb, cell 5:  *)
(* "Power spectral density") together with the library calls it makes:    *)
(* numpy's linspace / sum / mean / squeeze / broadcasting division, the    *)
(* global numpy random generator, and pygsp's Filter.filter shape rules.   *)
(*                                                                         *)
(* Numbers are exact rationals with the two IEEE specials the code can     *)
(* produce (inf, nan); rounding is not modelled.  Arrays are numpy arrays: *)
(* a shape and the data in C order.  The filter bank applies each band's   *)
(* operator exactly (the error of the Chebyshev approximation is not       *)
(* modelled).                                                              *)
(***************************************************************************)
EXTENDS Integers, Sequences, FiniteSets

VARIABLES G, signal, rng, last

vars == <<G, signal, rng, last>>

(***************************************************************************)
(* Bounds of the model.                                                    *)
(***************************************************************************)
NumNodes == 2       \* graph.N
MaxPoint == 3       \* n_point ranges over 1..MaxPoint
MaxRand  == 2       \* n_rand ranges over 0..MaxRand (0 is a malformed call)
MaxBatch == 2       \* a batch signal has 1..MaxBatch columns

(***************************************************************************)
(* Floating-point values: rationals n/d in lowest terms, +-inf, nan.       *)
(***************************************************************************)
Abs(x) == IF x < 0 THEN -x ELSE x

RECURSIVE GCD(_, _)
GCD(a, b) == IF b = 0 THEN a ELSE GCD(b, a % b)

NaN == [k |-> "nan", n |-> 0, d |-> 1]

Inf(s) == [k |-> "inf", n |-> s, d |-> 1]

Num(n, d) ==
    LET g == GCD(Abs(n), d)
    IN  [k |-> "num", n |-> n \div g, d |-> d \div g]

Int2F(i) == Num(i, 1)

Sign(x) == IF x < 0 THEN -1 ELSE IF x > 0 THEN 1 ELSE 0

FAdd(a, b) ==
    IF a.k = "nan" \/ b.k = "nan" THEN NaN
    ELSE IF a.k = "inf" /\ b.k = "inf"
         THEN (IF a.n = b.n THEN a ELSE NaN)
    ELSE IF a.k = "inf" THEN a
    ELSE IF b.k = "inf" THEN b
    ELSE Num(a.n * b.d + b.n * a.d, a.d * b.d)

FMul(a, b) ==
    IF a.k = "nan" \/ b.k = "nan" THEN NaN
    ELSE IF a.k = "inf" \/ b.k = "inf"
         THEN (IF Sign(a.n) * Sign(b.n) = 0 THEN NaN
               ELSE Inf(Sign(a.n) * Sign(b.n)))
    ELSE Num(a.n * b.n, a.d * b.d)

\* A division that coerces 0/0 to zero instead of nan.
FDivZeroOverZero(a, b) ==
    IF a.k = "nan" \/ b.k = "nan" THEN NaN
    ELSE IF a.k = "inf"
         THEN (IF b.k = "inf" THEN NaN
               ELSE Inf(a.n * (IF b.n < 0 THEN -1 ELSE 1)))
    ELSE IF b.k = "inf" THEN Num(0, 1)
    ELSE IF b.n = 0
         THEN (IF a.n = 0 THEN Num(0, 1) ELSE Inf(Sign(a.n)))
    ELSE Num(a.n * b.d * Sign(b.n), a.d * Abs(b.n))

\* numpy true division: x/0 is +-inf, 0/0 is nan (a warning, no exception).
FDiv(a, b) ==
    IF a.k = "nan" \/ b.k = "nan" THEN NaN
    ELSE IF a.k = "inf"
         THEN (IF b.k = "inf" THEN NaN
               ELSE Inf(a.n * (IF b.n < 0 THEN -1 ELSE 1)))
    ELSE IF b.k = "inf" THEN Num(0, 1)
    ELSE IF b.n = 0
         THEN (IF a.n = 0 THEN NaN ELSE Inf(Sign(a.n)))
    ELSE Num(a.n * b.d * Sign(b.n), a.d * Abs(b.n))

(***************************************************************************)
(* numpy arrays: [shape, flat], data in C (row-major) order.               *)
(***************************************************************************)
RECURSIVE Prod(_)
Prod(s) == IF s = <<>> THEN 1 ELSE Head(s) * Prod(Tail(s))

Arr(shape, flat) == [shape |-> shape, flat |-> flat]

Ndim(a) == Len(a.shape)

Size(a) == Prod(a.shape)

RECURSIVE DropOnes(_)
DropOnes(s) ==
    IF s = <<>> THEN <<>>
    ELSE IF Head(s) = 1 THEN DropOnes(Tail(s))
    ELSE <<Head(s)>> \o DropOnes(Tail(s))

\* ndarray.squeeze(): every axis of length 1 is removed.
Squeeze(a) == Arr(DropOnes(a.shape), a.flat)

\* The square left out.
NoSquare(a) == a

\* a ** 2, elementwise.
Square(a) == Arr(a.shape, [i \in 1..Size(a) |-> FMul(a.flat[i], a.flat[i])])

RECURSIVE FSum(_, _, _, _)
\* sum of flat[first], flat[first+stride], ... (count terms)
FSum(flat, first, stride, count) ==
    IF count = 0 THEN Num(0, 1)
    ELSE FAdd(flat[first], FSum(flat, first + stride, stride, count - 1))

\* np.sum(a, axis=0).  A 0-d argument passes through (numpy's ufunc.reduce
\* lets axis 0 slip through for scalars).
SumAxis0(a) ==
    IF Ndim(a) = 0 THEN a
    ELSE LET rest == Tail(a.shape)
             m    == Prod(rest)
         IN  Arr(rest, [j \in 1..m |-> FSum(a.flat, j, m, Head(a.shape))])

\* np.mean(a, axis=0) of an array with at least one axis: the sum divided by
\* the length of axis 0 (an empty axis gives nan).
MeanAxis0(a) ==
    LET s == SumAxis0(a)
    IN  Arr(s.shape,
            [j \in 1..Size(s) |-> FDiv(s.flat[j], Int2F(Head(a.shape)))])

\* a / b with numpy broadcasting, for operands of at most one axis.
Broadcastable(a, b) ==
    /\ Ndim(a) <= 1 /\ Ndim(b) <= 1
    /\ \/ Ndim(a) = 0 \/ Ndim(b) = 0
       \/ a.shape = b.shape
       \/ a.shape = <<1>> \/ b.shape = <<1>>

Divide(a, b) ==
    LET shape == IF Ndim(a) = 0 THEN b.shape
                 ELSE IF Ndim(b) = 0 THEN a.shape
                 ELSE IF a.shape = <<1>> THEN b.shape ELSE a.shape
        at(x, i) == IF Size(x) = 1 THEN x.flat[1] ELSE x.flat[i]
    IN  Arr(shape, [i \in 1..Prod(shape) |-> FDiv(at(a, i), at(b, i))])

\* A linspace that leaves the end point out (endpoint=False).
LinspaceNoEndpoint(stop, num) ==
    Arr(<<num>>, [i \in 1..num |-> Num((i - 1) * stop, num)])

\* np.linspace(start=0, stop, num): num = 1 gives [0]; otherwise num evenly
\* spaced samples, the last one set to stop.
Linspace(stop, num) ==
    Arr(<<num>>,
        [i \in 1..num |->
            IF num = 1 THEN Num(0, 1)
            ELSE IF i = num THEN Int2F(stop)
            ELSE Num((i - 1) * stop, num - 1)])

(***************************************************************************)
(* The global numpy random generator (np.random), abstracted as a small    *)
(* full-period linear congruential generator: a deterministic function of  *)
(* its state, advanced by one step per drawn sample.                       *)
(***************************************************************************)
RngStates == 0..7

RngNext(s) == (5 * s + 3) % 8

RngBit(s) == s \div 4

RECURSIVE RngDraw(_, _)
\* the next count Bernoulli(0.5) samples drawn from state s
RngDraw(s, count) ==
    IF count = 0 THEN <<>>
    ELSE <<RngBit(RngNext(s))>> \o RngDraw(RngNext(s), count - 1)

RECURSIVE RngSkip(_, _)
\* the generator state after count samples have been drawn
RngSkip(s, count) == IF count = 0 THEN s ELSE RngSkip(RngNext(s), count - 1)

\* np.random.binomial(n=1, p=0.5, size=[rows, cols]) * 2 - 1
RandSig(s, rows, cols) ==
    LET bits == RngDraw(s, rows * cols)
    IN  Arr(<<rows, cols>>, [i \in 1..(rows * cols) |-> Int2F(bits[i] * 2 - 1)])

(***************************************************************************)
(* The graph and its filter bank.  The graph is opaque to the estimator:   *)
(* N, lmax, and for each band b the operator H_b applied by g.filter.      *)
(* The model's graph is the complete graph on N nodes, whose Laplacian     *)
(* N*I - J (J the all-ones matrix) has lmax = N and whose polynomials are  *)
(* the operators a*I + c*J.  Kernel(b) = <<a, c>> is the operator of band  *)
(* b: the odd bands apply I, the even bands apply J.                       *)
(***************************************************************************)
Graph(N) == [N |-> N, lmax |-> N]

Graphs == {Graph(NumNodes)}

Kernel(b) == IF b % 2 = 1 THEN <<1, 0>> ELSE <<0, 1>>

\* pg.filters.Itersine(graph, Nf=n_point, overlap=2).  With Nf = 1 the
\* kernel scale lmax / (Nf - overlap + 1) is a numpy division by zero (inf,
\* a warning) and the single band passes everything: Kernel(1) is I.
Itersine(graph, Nf) == [G |-> graph, Nf |-> Nf]

\* element (i, j, f) of a 3-d array of the given shape
At3(flat, shape, i, j, f) ==
    flat[((i - 1) * shape[2] + (j - 1)) * shape[3] + f]

\* (H_b x)[i] for the column x = (j, f) of a 3-d array
ApplyKernel(kern, flat, shape, j, f, i) ==
    LET total == FSum(flat, (j - 1) * shape[3] + f, shape[2] * shape[3], shape[1])
    IN  FAdd(FMul(Int2F(kern[1]), At3(flat, shape, i, j, f)),
             FMul(Int2F(kern[2]), total))

\* the filter's view of its input: #nodes x #signals x #features
FilterInShape(g, s) ==
    LET lastdim == s.shape[Len(s.shape)]
        s1 == IF Ndim(s) = 1 \/ lastdim \notin {1, g.Nf}
              THEN s.shape \o <<1>> ELSE s.shape
    IN  IF Len(s1) < 3 THEN <<s1[1], 1, s1[2]>> ELSE s1

\* one input feature analysed by every band: #nodes x #signals x Nf
Analyse(g, flat, sh) ==
    Arr(<<sh[1], sh[2], g.Nf>>,
        [p \in 1..(sh[1] * sh[2] * g.Nf) |->
            ApplyKernel(Kernel(((p - 1) % g.Nf) + 1), flat, sh,
                        (((p - 1) \div g.Nf) % sh[2]) + 1, 1,
                        ((p - 1) \div (g.Nf * sh[2])) + 1)])

\* Nf input features synthesised into one: #nodes x #signals x 1
Synthesise(g, flat, sh) ==
    Arr(<<sh[1], sh[2], 1>>,
        [p \in 1..(sh[1] * sh[2]) |->
            FSum([b \in 1..g.Nf |->
                     ApplyKernel(Kernel(b), flat, sh, ((p - 1) % sh[2]) + 1, b,
                                 ((p - 1) \div sh[2]) + 1)],
                 1, 1, g.Nf)])

\* g.filter(s, method='chebyshev', order=...): the first dimension must be
\* the number of nodes; the input is analysed or synthesised according to
\* its number of features, and the result is squeezed.
Filter(g, s) ==
    IF s.shape[1] # g.G.N THEN [err |-> "ValueError", arr |-> Arr(<<>>, <<>>)]
    ELSE LET sh == FilterInShape(g, s)
         IN  [err |-> "",
              arr |-> Squeeze(IF sh[3] = 1 THEN Analyse(g, s.flat, sh)
                              ELSE Synthesise(g, s.flat, sh))]

(***************************************************************************)
(* estimate_graph_psd(graph, signal, n_rand, n_point), run with the global *)
(* generator in state rng0.  The outcome is either a raised exception or   *)
(* the returned pair (spectrum, psd); the intermediate arrays are kept in  *)
(* the record so that properties can speak about them.                     *)
(***************************************************************************)
Empty == Arr(<<>>, <<>>)

Raised(exc, rngAfter, sigd, rsig) ==
    [kind |-> "raise", exc |-> exc, spectrum |-> Empty, psd |-> Empty,
     sig_dist |-> sigd, eig_dist |-> Empty, rand_sig |-> rsig, rng |-> rngAfter]

EstimateGraphPsd(graph, sig, n_rand, n_point, rng0) ==
    LET g        == Itersine(graph, n_point)
        spectrum == Linspace(graph.lmax, n_point)
        fs       == Filter(g, sig)
    IN  IF fs.err # "" THEN Raised(fs.err, rng0, Empty, Empty)
        ELSE
        LET sig_filt  == fs.arr
            sig_sum   == SumAxis0(Square(sig_filt))
            sig_dist  == IF Ndim(sig_sum) > 1
                         THEN Squeeze(MeanAxis0(sig_sum)) ELSE sig_sum
            rand_sig  == RandSig(rng0, graph.N, n_rand)
            rng1      == RngSkip(rng0, graph.N * n_rand)
            fr        == Filter(g, rand_sig)
            rand_sum  == SumAxis0(Square(fr.arr))
        IN  IF Ndim(rand_sum) = 0
            \* np.mean(<0-d>, axis=0): axis 0 is out of bounds (AxisError;
            \* IndexError in older numpy)
            THEN Raised("AxisError", rng1, sig_dist, rand_sig)
            ELSE
            LET eig_dist == Squeeze(MeanAxis0(rand_sum))
            IN  IF ~Broadcastable(sig_dist, eig_dist)
                THEN Raised("ValueError", rng1, sig_dist, rand_sig)
                ELSE [kind |-> "ok", exc |-> "", spectrum |-> spectrum,
                      psd |-> Divide(sig_dist, eig_dist),
                      sig_dist |-> sig_dist, eig_dist |-> eig_dist,
                      rand_sig |-> rand_sig, rng |-> rng1]

(***************************************************************************)
(* The notebook as a state machine: the globals G and signal (the map      *)
(* handed to the estimator), the global generator, and the last call of    *)
(* estimate_graph_psd with its outcome.                                    *)
(***************************************************************************)
\* the supports of the signals of the model: none, one entry, all entries
Supports(n) == {{}} \cup {{i} : i \in 1..n} \cup {1..n}

\* the 0/1-valued arrays of a given shape with such a support
ArraysOf(shape) ==
    {Arr(shape, [i \in 1..Prod(shape) |-> Int2F(IF i \in S THEN 1 ELSE 0)]) :
        S \in Supports(Prod(shape))}

\* a length-N vector, an N x k batch, or a vector of the wrong length
Signals ==
    ArraysOf(<<NumNodes>>) \cup ArraysOf(<<NumNodes + 1>>)
        \cup UNION {ArraysOf(<<NumNodes, k>>) : k \in 1..MaxBatch}

\* estimate_graph_psd tabulated over the inputs of the model (the operator
\* is a pure function of its arguments and the generator state)
Outcome ==
    [nr \in 0..MaxRand, np \in 1..MaxPoint, r \in RngStates |->
        [g \in Graphs |->
            [s \in Signals |-> EstimateGraphPsd(g, s, nr, np, r)]]]

NoCall ==
    [n_rand |-> 0, n_point |-> 0, rng0 |-> 0,
     out |-> [kind |-> "none", exc |-> "", spectrum |-> Empty, psd |-> Empty,
              sig_dist |-> Empty, eig_dist |-> Empty, rand_sig |-> Empty,
              rng |-> 0]]

Init ==
    /\ G \in Graphs
    /\ signal \in Signals
    /\ rng = 0
    /\ last = NoCall

\* np.random.seed(seed)
Seed(seed) ==
    /\ rng' = seed
    /\ UNCHANGED <<G, signal, last>>

\* A call that brings a vector signal to batch form in place
\* (signal.shape = (N, 1)).
CallReshapingInPlace(n_rand, n_point) ==
    \E out \in {Outcome[n_rand, n_point, rng][G][signal]} :
        /\ last' = [n_rand |-> n_rand, n_point |-> n_point, rng0 |-> rng,
                    out |-> out]
        /\ rng' = out.rng
        /\ signal' = IF signal.shape = <<G.N>>
                     THEN Arr(<<G.N, 1>>, signal.flat) ELSE signal
        /\ UNCHANGED G

\* spectrum, psd = estimate_graph_psd(G, signal, n_rand, n_point)
Call(n_rand, n_point) ==
    \E out \in {Outcome[n_rand, n_point, rng][G][signal]} :
        /\ last' = [n_rand |-> n_rand, n_point |-> n_point, rng0 |-> rng,
                    out |-> out]
        /\ rng' = out.rng
        /\ UNCHANGED <<G, signal>>

Next ==
    \/ \E seed \in RngStates : Seed(seed)
    \/ \E n_rand \in 0..MaxRand, n_point \in 1..MaxPoint : Call(n_rand, n_point)

Spec == Init /\ [][Next]_vars


(***************************************************************************)
(* Vocabulary of the properties.                                           *)
(***************************************************************************)
Called   == last.out.kind # "none"
Returned == last.out.kind = "ok"

\* the call's arguments satisfy the contract of the estimator
Valid ==
    /\ last.n_rand >= 1 /\ last.n_point >= 1
    /\ signal.shape[1] = G.N
    /\ G.lmax > 0

IsZero(v) == v.k = "num" /\ v.n = 0
IsNaN(v)  == v.k = "nan"
Finite(v) == v.k = "num"
Leq(a, b) == a.k = "num" /\ b.k = "num" /\ a.n * b.d <= b.n * a.d

\* entry i of a 0-d or 1-d array broadcast against longer ones
Bcast(a, i) == IF Size(a) = 1 THEN a.flat[1] ELSE a.flat[i]

\* the energy of band b's response to column c of an N x cols matrix:
\* the sum over the nodes of the squared response
Squared(v) == FMul(v, v)

BandEnergy(b, flat, cols, c) ==
    FSum([i \in 1..G.N |->
             Squared(ApplyKernel(Kernel(b), flat, <<G.N, cols, 1>>, c, 1, i))],
         1, 1, G.N)

\* the mean over the columns of the band's energy
MeanBandEnergy(b, flat, cols) ==
    FDiv(FSum([c \in 1..cols |-> BandEnergy(b, flat, cols, c)], 1, 1, cols),
         Int2F(cols))

SignalCols == IF Ndim(signal) = 1 THEN 1 ELSE signal.shape[2]

\* signal_energy[b]: sum over nodes, then mean over the batch columns
SignalEnergy(b) == MeanBandEnergy(b, signal.flat, SignalCols)

\* reference_energy[b]: sum over nodes, then mean over the n_rand probes
ReferenceEnergy(b) == MeanBandEnergy(b, last.out.rand_sig.flat, last.n_rand)

Bands == 1..last.n_point

ZeroSignal == \A i \in 1..Size(signal) : IsZero(signal.flat[i])

(***************************************************************************)
(* C1.  In every valid call that returns one psd value per band, psd[b] is *)
(* the band's signal energy (as the code computed it) divided by the       *)
(* band's own reference energy: the energy of the probes in band b summed  *)
(* over the nodes and averaged over the n_rand probes only.                *)
(* Refuted by n_rand = 1, where the code averages over the bands.          *)
(***************************************************************************)
C1_PsdIsPerBandRatio ==
    (Valid /\ Returned /\ last.out.psd.shape = <<last.n_point>>)
        => \A b \in Bands :
              last.out.psd.flat[b]
                  = FDiv(Bcast(last.out.sig_dist, b), ReferenceEnergy(b))

(***************************************************************************)
(* C2.  In every valid call that returns, spectrum and psd are sequences   *)
(* of the same length n_point.  Refuted by n_point = 1 (psd is a 0-d       *)
(* scalar, or has one entry per batch column).                             *)
(***************************************************************************)
C2_LengthsAreNPoint ==
    (Valid /\ Returned)
        => /\ last.out.spectrum.shape = <<last.n_point>>
           /\ last.out.psd.shape = <<last.n_point>>

(***************************************************************************)
(* C3 as stated.  In every valid call that returns, the spectrum is        *)
(* non-decreasing, starts at 0, ends at lmax, and                          *)
(* spectrum[i] * (n_point - 1) = i * lmax.  Refuted by n_point = 1.        *)
(***************************************************************************)
SpectrumNonDecreasing ==
    \A i \in 1..(Size(last.out.spectrum) - 1) :
        Leq(last.out.spectrum.flat[i], last.out.spectrum.flat[i + 1])

C3_SpectrumSpansLmax ==
    (Valid /\ Returned)
        => /\ SpectrumNonDecreasing
           /\ last.out.spectrum.flat[1] = Int2F(0)
           /\ last.out.spectrum.flat[Size(last.out.spectrum)] = Int2F(G.lmax)
           /\ \A i \in 1..Size(last.out.spectrum) :
                 FMul(last.out.spectrum.flat[i], Int2F(last.n_point - 1))
                     = Int2F((i - 1) * G.lmax)

(***************************************************************************)
(* C3 amended.  In every valid call that returns, the spectrum has n_point *)
(* entries, is non-decreasing and starts at 0; for n_point >= 2 entry i is *)
(* i * lmax / (n_point - 1) and the last entry is lmax; for n_point = 1    *)
(* the spectrum is [0].                                                    *)
(***************************************************************************)
C3_SpectrumAmended ==
    (Valid /\ Returned)
        => /\ last.out.spectrum.shape = <<last.n_point>>
           /\ SpectrumNonDecreasing
           /\ last.out.spectrum.flat[1] = Int2F(0)
           /\ last.n_point >= 2 =>
                /\ last.out.spectrum.flat[last.n_point] = Int2F(G.lmax)
                /\ \A i \in 1..last.n_point :
                      last.out.spectrum.flat[i]
                          = FDiv(Int2F((i - 1) * G.lmax), Int2F(last.n_point - 1))

C3_Witness ==
    Valid /\ Returned /\ last.n_point >= 3 /\ G.lmax >= 2
        /\ last.out.spectrum.flat[2] = Int2F(1)

(***************************************************************************)
(* C4.  Every call with a malformed input (n_rand < 1, n_point < 1, a      *)
(* signal whose node dimension is not graph.N, lmax <= 0) raises the       *)
(* invalid-argument error (ValueError) and returns nothing.                *)
(* Refuted by n_rand = 0, which returns an all-NaN psd.                    *)
(***************************************************************************)
C4_MalformedRaises ==
    (Called /\ ~Valid)
        => last.out.kind = "raise" /\ last.out.exc = "ValueError"

(***************************************************************************)
(* C5.  In every valid call that returns, a psd entry whose denominator    *)
(* (the eig_dist it is divided by) is zero is NaN, never 0 or an infinity, *)
(* and an entry whose denominator is non-zero is finite.                   *)
(* Refuted by a zero denominator under a non-zero signal energy: +inf.     *)
(***************************************************************************)
C5_DegenerateIsNaN ==
    (Valid /\ Returned)
        => \A i \in 1..Size(last.out.psd) :
              IF IsZero(Bcast(last.out.eig_dist, i))
              THEN IsNaN(last.out.psd.flat[i])
              ELSE Finite(last.out.psd.flat[i])

(***************************************************************************)
(* C6.  A call that directly follows a returned call with the same graph,  *)
(* signal, n_rand and n_point (nothing reseeds the generator in between)   *)
(* returns the same psd.  Refuted: the second call draws its probes from   *)
(* the advanced state of the global generator.                             *)
(***************************************************************************)
C6_RepeatedCallSamePsd ==
    [][(Valid /\ Returned /\ last.out.rng = rng
            /\ Call(last.n_rand, last.n_point))
          => last'.out.psd = last.out.psd]_vars

(***************************************************************************)
(* C7.  In every valid call that returns and in which no band is           *)
(* degenerate (every band's reference energy is non-zero), every psd       *)
(* entry is a finite number >= 0.                                          *)
(***************************************************************************)
NoDegenerateBand == \A b \in Bands : ~IsZero(ReferenceEnergy(b))

C7_PsdNonNegative ==
    (Valid /\ Returned /\ NoDegenerateBand)
        => \A i \in 1..Size(last.out.psd) :
              Finite(last.out.psd.flat[i]) /\ last.out.psd.flat[i].n >= 0

C7_Witness ==
    /\ Valid /\ Returned /\ NoDegenerateBand
    /\ last.n_point >= 3
    /\ last.out.psd.shape = <<last.n_point>>
    /\ \E i \in Bands : last.out.psd.flat[i].n > 0

C10_SignalEnergyRule ==
    (Valid /\ Returned)
        => /\ Size(last.out.sig_dist) = last.n_point
           /\ \A b \in Bands : last.out.sig_dist.flat[b] = SignalEnergy(b)

====
